---- MODULE Spec2Model ----
(***************************************************************************)
(* hashwrap: the recursive SPV envelope resolver of p2ppsr/hashwrap.       *)
(*                                                                         *)
(* The repository holds the resolver in several copies.  Two of them are   *)
(* modelled, selected by the variable impl:                                *)
(*   "index"    src/src/index.js       options { taalApiKey }              *)
(*   "part_000" src/unnamed/part_000   options { taalApiKey, network }     *)
(* hashwrap is an async function: every step between two awaits is one     *)
(* atomic action.  The indexer and the mAPI provider are the environment:  *)
(* each response is drawn from a bounded set when it arrives.              *)
(* The proof normalizer of index.js is a pure function: SpecNormalize       *)
(* applies it to every proof record of a bounded set, held in rawProof,     *)
(* and keeps the result in normalProof.                                     *)
(***************************************************************************)
EXTENDS Integers, Sequences, FiniteSets, TLC

VARIABLES impl, stack, calls, requests, promises, rawProof, normalProof

vars == <<impl, stack, calls, requests, promises, rawProof, normalProof>>

(***************************************************************************)
(* Bounds of the model                                                     *)
(***************************************************************************)
\* number of distinct well-formed transaction identifiers in the world
NumTx == 3
\* largest number of inputs of a raw transaction
MaxInputs == 2
\* largest number of branches of a Merkle proof
MaxBranches == 2

(***************************************************************************)
(* Transaction identifiers: strings, as sequences of characters            *)
(***************************************************************************)
\* the length the identifier check and the regular expression require
IdLen == 64

HexChars == {"0", "1", "2", "3", "4", "5", "6", "7", "8", "9", "a", "b", "c", "d", "e", "f"}

HexDigit == <<"1", "2", "3", "4", "5", "6", "7", "8", "9", "a", "b", "c", "d", "e", "f">>

Repeat(c, n) == [i \in 1..n |-> c]

\* identifier values are held by name; Chars gives the characters of each
IdName == <<"t1", "t2", "t3", "t4", "t5", "t6", "t7", "t8", "t9">>

\* the n-th well-formed identifier of the world: prevTxId.toString('hex')
Txid(n) == IdName[n]

ValidIds == {Txid(n) : n \in 1..NumTx}

Rank(t) == CHOOSE n \in 1..NumTx : Txid(n) = t

\* identifiers a caller may pass that are not 64 lowercase hex characters;
\* "empty" stands for the empty and the missing identifier
InvalidIds == {"empty", "short", "long", "upper", "nonhex"}

Chars(t) == CASE t \in ValidIds -> Repeat(HexDigit[Rank(t)], IdLen)
              [] t = "t0" -> Repeat("0", IdLen)
              [] t = "empty" -> <<>>
              [] t = "short" -> Repeat("a", IdLen - 1)
              [] t = "long" -> Repeat("a", IdLen + 1)
              [] t = "upper" -> Repeat("A", IdLen)
              [] t = "nonhex" -> Repeat("a", IdLen - 1) \o <<"g">>

\* /[0-9a-f]{64}/g.test(txid): an unanchored search for 64 hex characters
RegexTest(s) == \E i \in 1..(Len(s) - IdLen + 1) : \A j \in i..(i + IdLen - 1) : s[j] \in HexChars

\* JavaScript truthiness of a string
Truthy(s) == s /= <<>>

StartsWith(s, p) == Len(s) >= Len(p) /\ SubSeq(s, 1, Len(p)) = p

(***************************************************************************)
(* Options                                                                 *)
(***************************************************************************)
TestnetPrefix == <<"t", "e", "s", "t", "n", "e", "t", "_">>

MainnetKey == <<"m", "a", "i", "n", "n", "e", "t", "_", "k">>

TestnetKey == TestnetPrefix \o <<"k">>

\* the empty string stands for an absent taalApiKey
ApiKeys == {<<>>, MainnetKey, TestnetKey}

\* src/src/index.js documents and reads only taalApiKey; the network
\* selector is an option of part_000
Networks(i) == IF i = "part_000" THEN {"mainnet", "testnet"} ELSE {"undefined"}

\* options = {}
DefaultOptions == [network |-> "undefined", taalApiKey |-> <<>>, format |-> "undefined"]

\* the options a caller passes: the documented ones in every combination,
\* and { format: 'beefHex' }, the options of the repository's test
OptionsOf(i) == [network : Networks(i), taalApiKey : ApiKeys, format : {"undefined"}] \cup {[DefaultOptions EXCEPT !.format = "beefHex"]}

(***************************************************************************)
(* Response bodies                                                         *)
(***************************************************************************)
Data(b) == [empty |-> FALSE, body |-> b]

NoData == [empty |-> TRUE, body |-> <<>>]

SeqsUpTo(S, n) == UNION {[1..k -> S] : k \in 1..n}

\* the 32 zero bytes a coinbase input carries as its previous transaction
NullId == "t0"

\* input lists of the transaction t: the ancestry is acyclic, every input
\* spends an output of a transaction of lower rank, possibly several outputs
\* of one; the transaction of rank 1 is a coinbase
InputRefs(t) == IF Rank(t) = 1 THEN {<<NullId>>} ELSE SeqsUpTo({Txid(n) : n \in 1..(Rank(t) - 1)}, MaxInputs)

\* raw transactions the indexer may return for t
RawTxs(t) == {Data([i \in 1..Len(s) |-> [prevTxId |-> s[i], outputIndex |-> i - 1]]) : s \in InputRefs(t)}

\* the indexer has no bytes for an identifier outside the world
RawTxResponses(t) == {NoData} \cup (IF t \in ValidIds THEN RawTxs(t) ELSE {})

\* the inputs of the transaction taken from the last to the first
TxInputsReversed(rawTx) == [k \in 1..Len(rawTx.body) |-> rawTx.body[Len(rawTx.body) + 1 - k]]

\* new bsv.Transaction(rawTx).inputs
TxInputs(rawTx) == rawTx.body

BranchHash == <<"aa", "bb", "cc", "dd">>

\* the Merkle path of a mined transaction is a fact of the chain: the n-th
\* transaction sits under n % (MaxBranches + 1) levels, on alternating sides
ProofPath(n) == [i \in 1..(n % (MaxBranches + 1)) |-> IF (n + i) % 2 = 0 THEN "R" ELSE "L"]

Branches(t) == [i \in 1..Len(ProofPath(Rank(t))) |-> [hash |-> BranchHash[i], pos |-> ProofPath(Rank(t))[i]]]

\* the proof array of the WhatsOnChain /proof endpoint
WocProof(t) == Data(<<[hash |-> t, merkleRoot |-> "root", branches |-> Branches(t)]>>)

Num(v) == [nan |-> FALSE, val |-> v]

NaN == [nan |-> TRUE, val |-> 0]

\* the record getMerkleProofFromWhatsOnChain of cwi-external-services returns
ExternalProof(t) == Data([txOrId |-> t, target |-> "root", targetType |-> "merkleRoot", nodes |-> [i \in 1..Len(Branches(t)) |-> Branches(t)[i].hash], index |-> Num(Rank(t) % (2 ^ Len(Branches(t))))])

\* no proof while the transaction is unconfirmed; a coinbase is never unconfirmed
ProofResponses(i, t) == (IF Rank(t) = 1 THEN {} ELSE {NoData}) \cup {IF i = "part_000" THEN ExternalProof(t) ELSE WocProof(t)}

RECURSIVE ParseBits(_)
ParseBits(s) == IF s = <<>> THEN 0 ELSE 2 * ParseBits(SubSeq(s, 1, Len(s) - 1)) + (IF s[Len(s)] = "1" THEN 1 ELSE 0)

\* parseInt(s, 2) of a string of binary digits
ParseInt2(s) == IF s = <<>> THEN NaN ELSE Num(ParseBits(s))

\* branches.reduce((a, e) => '' + a + (e.pos === 'R' ? '0' : '1'), '')
BitString(branches) == [i \in 1..Len(branches) |-> IF branches[i].pos = "R" THEN "0" ELSE "1"]

NormalizeProof(proof) == [txOrId |-> proof[1].hash, target |-> proof[1].merkleRoot, targetType |-> "merkleRoot", nodes |-> [i \in 1..Len(proof[1].branches) |-> proof[1].branches[i].hash], index |-> ParseInt2(BitString(proof[1].branches))]

CopyProof(proof) == [txOrId |-> proof.txOrId, target |-> proof.target, targetType |-> proof.targetType, nodes |-> proof.nodes, index |-> proof.index]

MinedEnvelope(i, rawTx, proof) == [rawTx |-> rawTx, proof |-> IF i = "part_000" THEN CopyProof(proof.body) ELSE NormalizeProof(proof.body)]

(***************************************************************************)
(* mAPI responses                                                          *)
(***************************************************************************)
MinerKey == "minerId"

OtherId(t) == Txid((Rank(t) % NumTx) + 1)

Payloads(t) == {[wellFormed |-> FALSE, txid |-> "", returnResult |-> "", resultDescription |-> ""]} \cup [wellFormed : {TRUE}, txid : {t, OtherId(t)}, returnResult : {"success", "failure"}, resultDescription : {""}]

\* bsv.crypto.Hash.sha256(Buffer.from(payload)), taken as collision free
Sha256(payload) == [sha256 |-> payload]

\* a signature is the statement that a key signed a hash
Sign(hash, key) == [over |-> hash, by |-> key]

\* the payload as it was when the provider signed it, for a payload altered later
Original(payload) == [payload EXCEPT !.resultDescription = "original"]

MapiResponses(t) == UNION {{[payload |-> p, signature |-> Sign(Sha256(q), MinerKey), publicKey |-> MinerKey] : q \in {p, Original(p)}} : p \in Payloads(t)}

\* bsv.crypto.ECDSA.verify(payloadHash, signature, publicKey)
ECDSAVerify(hash, signature, publicKey) == signature.over = hash /\ signature.by = publicKey

(***************************************************************************)
(* Errors, promises and envelopes                                          *)
(***************************************************************************)
Error(message, args) == [message |-> message, args |-> args]

Pending == [state |-> "pending", value |-> <<>>]

Fulfilled(v) == [state |-> "fulfilled", value |-> v]

Rejected(e) == [state |-> "rejected", value |-> e]

PendingEnvelope(rawTx, mapiResponse, inputs) == [rawTx |-> rawTx, mapiResponses |-> <<mapiResponse>>, inputs |-> inputs]

(***************************************************************************)
(* The machine: the stack of suspended hashwrap calls, the log of calls,   *)
(* the log of HTTP requests with their responses, and one promise per call *)
(***************************************************************************)
M == [stack |-> stack, calls |-> calls, requests |-> requests, promises |-> promises]

Top(m) == m.stack[Len(m.stack)]

SetTop(m, f) == [m EXCEPT !.stack[Len(m.stack)] = f]

\* axios.get(url, headers), suspended at the await
AxiosGet(m, kind, host, net, auth) == [m EXCEPT !.requests = Append(m.requests, [call |-> Top(m).id, kind |-> kind, host |-> host, net |-> net, txid |-> Top(m).txid, auth |-> auth, answered |-> FALSE, data |-> NoData])]

\* the response to the outstanding request arrives
Answer(m, d) == [m EXCEPT !.requests[Len(m.requests)].answered = TRUE, !.requests[Len(m.requests)].data = d]

Awaiting(kind) == /\ stack /= <<>>
                  /\ Top(M).pc = kind
                  /\ requests /= <<>>
                  /\ requests[Len(requests)].answered = FALSE
                  /\ requests[Len(requests)].call = Top(M).id

WocNet(i, options) == IF i = "part_000" /\ options.network = "testnet" THEN "test" ELSE "main"

\* the provider left at its default whatever the key
ProviderAlwaysDefault(apiKey) == "mapi.gorillapool.io"

\* the provider and the headers of the mAPI request
Provider(apiKey) == IF Truthy(apiKey) THEN "mapi.taal.com" ELSE "mapi.gorillapool.io"

\* the options of the recursive call: index.js calls hashwrap(txid),
\* part_000 calls hashwrap(txid, options)
ChildOptions(i, options) == IF i = "part_000" THEN options ELSE DefaultOptions

\* the identifier check with the regular expression test left out
TxidErrorLengthOnly(txid) == IF ~Truthy(Chars(txid)) THEN "TXID is missing" ELSE IF Len(Chars(txid)) /= IdLen THEN "Invalid TXID" ELSE ""

\* the identifier check at the head of hashwrap
TxidError(txid) == IF ~Truthy(Chars(txid)) THEN "TXID is missing" ELSE IF Len(Chars(txid)) /= IdLen \/ ~RegexTest(Chars(txid)) THEN "Invalid TXID" ELSE ""

\* the loop without the test for an ancestor resolved before
NeverResolved(inputs, txid) == FALSE

\* if (inputs[txid]) continue
AlreadyResolved(inputs, txid) == txid \in DOMAIN inputs

\* the branch on the proof with every response taken as no proof
NeverMined(proof) == FALSE

\* if (proof)
IsMined(proof) == ~proof.empty

\* the element of a singleton. Each step below is written as
\* Only({e : m \in {m0}}): the machine m0 handed to the step is evaluated
\* once and e is evaluated with m bound to its value
Only(S) == CHOOSE v \in S : TRUE

RECURSIVE Hashwrap(_, _, _, _, _), Settle(_, _, _), ResolveInputs(_, _, _), OnChild(_, _)

\* hashwrap(txid, options) up to its first await
Hashwrap(i, m0, txid, options, parent) ==
  Only({
      LET id == Len(m.calls) + 1
          m1 == [m EXCEPT !.calls = Append(m.calls, [id |-> id, parent |-> parent, txid |-> txid, options |-> options]), !.promises = Append(m.promises, Pending)]
          frame == [id |-> id, txid |-> txid, options |-> options, pc |-> "hex", rawTx |-> NoData, mapiResponse |-> NoData, inputs |-> <<>>, pos |-> 0, child |-> 0]
          thrown == [m1 EXCEPT !.promises[id] = Rejected(Error(TxidError(txid), <<>>))]
      IN  IF TxidError(txid) /= "" THEN (IF m.stack = <<>> THEN thrown ELSE OnChild(i, thrown))
          ELSE AxiosGet([m1 EXCEPT !.stack = Append(m.stack, frame)], "hex", "api.whatsonchain.com", WocNet(i, options), <<>>)
    : m \in {m0}})

\* the running call settles and the caller awaiting it is never resumed
SettleWithoutResume(i, m0, p) ==
  Only({
      [m EXCEPT !.stack = SubSeq(m.stack, 1, Len(m.stack) - 1), !.promises[Top(m).id] = p]
    : m \in {m0}})

\* the running call settles: its frame is dropped, its promise is set and
\* the caller awaiting it, if any, resumes
Settle(i, m0, p) ==
  Only({
      LET m1 == [m EXCEPT !.stack = SubSeq(m.stack, 1, Len(m.stack) - 1), !.promises[Top(m).id] = p]
      IN  IF m1.stack = <<>> THEN m1 ELSE OnChild(i, m1)
    : m \in {m0}})

\* the loop with a memo shared by the whole recursion: an ancestor some
\* earlier call resolved is not resolved again, its envelope is reused
ResolveInputsMemo(i, m0, pos) ==
  Only({
      LET f == Top(m)
          ins == TxInputs(f.rawTx)
          memo == {d \in 1..Len(m.calls) : m.calls[d].txid = ins[pos].prevTxId /\ m.promises[d].state = "fulfilled"}
      IN  IF pos > Len(ins) THEN Settle(i, m, Fulfilled(PendingEnvelope(f.rawTx, f.mapiResponse, f.inputs)))
          ELSE IF AlreadyResolved(f.inputs, ins[pos].prevTxId) THEN ResolveInputs(i, m, pos + 1)
          ELSE IF memo /= {} THEN ResolveInputs(i, SetTop(m, [f EXCEPT !.inputs = (ins[pos].prevTxId :> m.promises[CHOOSE d \in memo : TRUE].value) @@ f.inputs]), pos + 1)
          ELSE Hashwrap(i, SetTop(m, [f EXCEPT !.pc = "child", !.pos = pos, !.child = Len(m.calls) + 1]), ins[pos].prevTxId, ChildOptions(i, f.options), f.id)
    : m \in {m0}})

\* for (const input of tx.inputs), entered at position pos: skips the inputs
\* already resolved, awaits hashwrap of the next one, returns after the last
ResolveInputs(i, m0, pos) ==
  Only({
      LET f == Top(m)
          ins == TxInputs(f.rawTx)
      IN  IF pos > Len(ins) THEN Settle(i, m, Fulfilled(PendingEnvelope(f.rawTx, f.mapiResponse, f.inputs)))
          ELSE IF AlreadyResolved(f.inputs, ins[pos].prevTxId) THEN ResolveInputs(i, m, pos + 1)
          ELSE Hashwrap(i, SetTop(m, [f EXCEPT !.pc = "child", !.pos = pos, !.child = Len(m.calls) + 1]), ins[pos].prevTxId, ChildOptions(i, f.options), f.id)
    : m \in {m0}})

\* the awaited recursive call with its error caught: the loop goes on and
\* the failed ancestor is left out of inputs
OnChildSwallowed(i, m0) ==
  Only({
      LET f == Top(m)
          p == m.promises[f.child]
          t == TxInputs(f.rawTx)[f.pos].prevTxId
      IN  IF p.state = "rejected" THEN ResolveInputs(i, m, f.pos + 1)
          ELSE ResolveInputs(i, SetTop(m, [f EXCEPT !.inputs = (t :> p.value) @@ f.inputs]), f.pos + 1)
    : m \in {m0}})

\* the awaited recursive call has settled: its error is rethrown unchanged,
\* its envelope is stored under the ancestor's identifier and the loop goes on
OnChild(i, m0) ==
  Only({
      LET f == Top(m)
          p == m.promises[f.child]
          t == TxInputs(f.rawTx)[f.pos].prevTxId
      IN  IF p.state = "rejected" THEN Settle(i, m, p)
          ELSE ResolveInputs(i, SetTop(m, [f EXCEPT !.inputs = (t :> p.value) @@ f.inputs]), f.pos + 1)
    : m \in {m0}})

\* the not-found check left out
NeverNotFound(rawTx) == FALSE

\* if (!rawTx)
NotFound(rawTx) == rawTx.empty

\* the rawTx arrives: the not-found check, then the proof request
OnRawTx(i, m0, rawTx) ==
  Only({
      LET f == Top(m)
      IN  IF NotFound(rawTx) THEN Settle(i, m, Rejected(Error("Could not find transaction on WhatsOnChain", <<f.txid>>)))
          ELSE AxiosGet(SetTop(m, [f EXCEPT !.rawTx = rawTx, !.pc = "proof"]), "proof", "api.whatsonchain.com", WocNet(i, f.options), <<>>)
    : m \in {m0}})

\* the credential policy without the check for a missing key
CredentialErrorNoMissing(i, options) == IF i /= "part_000" \/ options.network /= "testnet" THEN "" ELSE IF ~StartsWith(options.taalApiKey, TestnetPrefix) THEN "Taal API key must be a testnet key for testnet" ELSE ""

\* the credential policy without the check of the key's prefix
CredentialErrorNoScope(i, options) == IF i /= "part_000" \/ options.network /= "testnet" THEN "" ELSE IF ~Truthy(options.taalApiKey) THEN "Taal API key required in testnet!" ELSE ""

\* the credential policy of the testnet, part_000 only
CredentialError(i, options) == IF i /= "part_000" \/ options.network /= "testnet" THEN "" ELSE IF ~Truthy(options.taalApiKey) THEN "Taal API key required in testnet!" ELSE IF ~StartsWith(options.taalApiKey, TestnetPrefix) THEN "Taal API key must be a testnet key for testnet" ELSE ""

\* the proof arrives, with the credential policy applied before the proof is looked at
OnProofPolicyFirst(i, m0, proof) ==
  Only({
      LET f == Top(m)
          apiKey == f.options.taalApiKey
      IN  IF CredentialError(i, f.options) /= "" THEN Settle(i, m, Rejected(Error(CredentialError(i, f.options), <<>>)))
          ELSE IF IsMined(proof) THEN Settle(i, m, Fulfilled(MinedEnvelope(i, f.rawTx, proof)))
          ELSE AxiosGet(SetTop(m, [f EXCEPT !.pc = "mapi"]), "mapi", Provider(apiKey), "none", apiKey)
    : m \in {m0}})

\* the proof arrives: the mined return, or the credential policy and the mAPI request
OnProof(i, m0, proof) ==
  Only({
      LET f == Top(m)
          apiKey == f.options.taalApiKey
      IN  IF IsMined(proof) THEN Settle(i, m, Fulfilled(MinedEnvelope(i, f.rawTx, proof)))
          ELSE IF CredentialError(i, f.options) /= "" THEN Settle(i, m, Rejected(Error(CredentialError(i, f.options), <<>>)))
          ELSE AxiosGet(SetTop(m, [f EXCEPT !.pc = "mapi"]), "mapi", Provider(apiKey), "none", apiKey)
    : m \in {m0}})

\* the checks of the mAPI response with the signature left unverified
MapiErrorNoSignature(txid, mapiResponse) ==
  LET payload == mapiResponse.payload
  IN  IF ~payload.wellFormed THEN Error("SyntaxError", <<>>)
      ELSE IF payload.txid /= txid THEN Error("Invalid mAPI response, expected a response for TXID but got one for", <<txid, payload.txid>>)
      ELSE IF payload.returnResult /= "success" THEN Error("Invalid mAPI status response for TXID", <<txid, payload.returnResult, payload.resultDescription>>)
      ELSE Error("", <<>>)

\* the checks of the mAPI response with the txid comparison left out
MapiErrorNoTxid(txid, mapiResponse) ==
  LET payloadHash == Sha256(mapiResponse.payload)
      payload == mapiResponse.payload
  IN  IF ~ECDSAVerify(payloadHash, mapiResponse.signature, mapiResponse.publicKey) THEN Error("Inalid mAPI signature for TXID", <<txid, mapiResponse.payload, mapiResponse.publicKey, mapiResponse.signature>>)
      ELSE IF ~payload.wellFormed THEN Error("SyntaxError", <<>>)
      ELSE IF payload.returnResult /= "success" THEN Error("Invalid mAPI status response for TXID", <<txid, payload.returnResult, payload.resultDescription>>)
      ELSE Error("", <<>>)

\* the checks of the mAPI response with the returnResult comparison left out
MapiErrorNoResult(txid, mapiResponse) ==
  LET payloadHash == Sha256(mapiResponse.payload)
      payload == mapiResponse.payload
  IN  IF ~ECDSAVerify(payloadHash, mapiResponse.signature, mapiResponse.publicKey) THEN Error("Inalid mAPI signature for TXID", <<txid, mapiResponse.payload, mapiResponse.publicKey, mapiResponse.signature>>)
      ELSE IF ~payload.wellFormed THEN Error("SyntaxError", <<>>)
      ELSE IF payload.txid /= txid THEN Error("Invalid mAPI response, expected a response for TXID but got one for", <<txid, payload.txid>>)
      ELSE Error("", <<>>)

\* the checks of the mAPI response with the payload parsed and compared
\* before the signature is verified
MapiErrorSignatureLast(txid, mapiResponse) ==
  LET payloadHash == Sha256(mapiResponse.payload)
      payload == mapiResponse.payload
  IN  IF ~payload.wellFormed THEN Error("SyntaxError", <<>>)
      ELSE IF payload.txid /= txid THEN Error("Invalid mAPI response, expected a response for TXID but got one for", <<txid, payload.txid>>)
      ELSE IF payload.returnResult /= "success" THEN Error("Invalid mAPI status response for TXID", <<txid, payload.returnResult, payload.resultDescription>>)
      ELSE IF ~ECDSAVerify(payloadHash, mapiResponse.signature, mapiResponse.publicKey) THEN Error("Inalid mAPI signature for TXID", <<txid, mapiResponse.payload, mapiResponse.publicKey, mapiResponse.signature>>)
      ELSE Error("", <<>>)

\* the checks of the mAPI response, in the order of the code: the signature,
\* JSON.parse, the txid, the returnResult
MapiError(txid, mapiResponse) ==
  LET payloadHash == Sha256(mapiResponse.payload)
      payload == mapiResponse.payload
  IN  IF ~ECDSAVerify(payloadHash, mapiResponse.signature, mapiResponse.publicKey) THEN Error("Inalid mAPI signature for TXID", <<txid, mapiResponse.payload, mapiResponse.publicKey, mapiResponse.signature>>)
      ELSE IF ~payload.wellFormed THEN Error("SyntaxError", <<>>)
      ELSE IF payload.txid /= txid THEN Error("Invalid mAPI response, expected a response for TXID but got one for", <<txid, payload.txid>>)
      ELSE IF payload.returnResult /= "success" THEN Error("Invalid mAPI status response for TXID", <<txid, payload.returnResult, payload.resultDescription>>)
      ELSE Error("", <<>>)

\* the mAPI response arrives: the checks, then the loop over the inputs
OnMapiResponse(i, m0, mapiResponse) ==
  Only({
      LET f == Top(m)
      IN  IF MapiError(f.txid, mapiResponse).message /= "" THEN Settle(i, m, Rejected(MapiError(f.txid, mapiResponse)))
          ELSE ResolveInputs(i, SetTop(m, [f EXCEPT !.mapiResponse = mapiResponse]), 1)
    : m \in {m0}})

Apply(m) == /\ stack' = m.stack
            /\ calls' = m.calls
            /\ requests' = m.requests
            /\ promises' = m.promises
            /\ UNCHANGED <<impl, rawProof, normalProof>>

(***************************************************************************)
(* Actions                                                                 *)
(***************************************************************************)
Init == /\ impl \in {"index", "part_000"}
        /\ stack = <<>>
        /\ calls = <<>>
        /\ requests = <<>>
        /\ promises = <<>>
        /\ rawProof = NoData
        /\ normalProof = NoData

\* a caller invokes hashwrap(txid, options)
Invoke == /\ calls = <<>>
          /\ \E txid \in ValidIds \cup InvalidIds, options \in OptionsOf(impl) : Apply(Hashwrap(impl, M, txid, options, 0))

RawTxResponse == /\ Awaiting("hex")
                 /\ \E d \in RawTxResponses(Top(M).txid) : Apply(OnRawTx(impl, Answer(M, d), d))

ProofResponse == /\ Awaiting("proof")
                 /\ \E d \in ProofResponses(impl, Top(M).txid) : Apply(OnProof(impl, Answer(M, d), d))

MapiResponse == /\ Awaiting("mapi")
                /\ \E r \in MapiResponses(Top(M).txid) : Apply(OnMapiResponse(impl, Answer(M, Data(r)), r))

Next == \/ Invoke
        \/ RawTxResponse
        \/ ProofResponse
        \/ MapiResponse

Spec == Init /\ [][Next]_vars

\* every request sent to the indexer or to the provider is answered in the end
FairSpec == Spec /\ WF_vars(RawTxResponse) /\ WF_vars(ProofResponse) /\ WF_vars(MapiResponse)

(***************************************************************************)
(* The normalizer on its own                                               *)
(***************************************************************************)
\* the side indicators a branch may carry: "R", and two that are not "R"
BranchPositions == {"R", "L", "r"}

BranchLists == UNION {[1..k -> [hash : {"aa", "bb"}, pos : BranchPositions]] : k \in 0..MaxBranches}

\* the proof arrays the /proof endpoint may return
ProofRecords == {Data(<<[hash |-> t, merkleRoot |-> "root", branches |-> b]>>) : t \in ValidIds, b \in BranchLists}

InitNormalize == /\ impl = "index"
                 /\ stack = <<>>
                 /\ calls = <<>>
                 /\ requests = <<>>
                 /\ promises = <<>>
                 /\ rawProof \in ProofRecords
                 /\ normalProof = NoData

\* the proof object hashwrap builds from the proof array
Normalize == /\ ~rawProof.empty
             /\ normalProof.empty
             /\ normalProof' = Data(NormalizeProof(rawProof.body))
             /\ UNCHANGED <<impl, stack, calls, requests, promises, rawProof>>

SpecNormalize == InitNormalize /\ [][Normalize]_vars

(***************************************************************************)
(* Reading the logs                                                        *)
(***************************************************************************)
CallIds == 1..Len(calls)

ReqIds == 1..Len(requests)

\* the request r is an answered request of the given kind
Answered(r, kind) == requests[r].kind = kind /\ requests[r].answered

\* the call c has received the answer d to its request of the given kind
Received(c, kind, d) == \E r \in ReqIds : requests[r].call = c /\ Answered(r, kind) /\ requests[r].data = d

GotNoProof(c) == \E r \in ReqIds : requests[r].call = c /\ Answered(r, "proof") /\ requests[r].data.empty

NoMapiRequest(c) == \A r \in ReqIds : ~(requests[r].call = c /\ requests[r].kind = "mapi")

NoChild(c) == \A d \in CallIds : calls[d].parent /= c

\* the identifier as the data model defines it: ^[0-9a-f]{64}$
IsTransactionIdentifier(s) == Len(s) = 64 /\ \A j \in 1..Len(s) : s[j] \in HexChars

\* the identifiers of the model that are not transaction identifiers
NotIdentifiers == {t \in ValidIds \cup InvalidIds \cup {NullId} : ~IsTransactionIdentifier(Chars(t))}

IsMinedShape(v) == DOMAIN v = {"rawTx", "proof"}

IsPendingShape(v) == DOMAIN v = {"rawTx", "mapiResponses", "inputs"}

PrevTxIds(rawTx) == {TxInputs(rawTx)[k].prevTxId : k \in 1..Len(TxInputs(rawTx))}

SignatureVerifies(r) == ECDSAVerify(Sha256(r.payload), r.signature, r.publicKey)

(***************************************************************************)
(* Claims                                                                  *)
(***************************************************************************)

\* C1: a call whose identifier is not exactly 64 lowercase hexadecimal
\* characters (the empty or missing one included) is rejected with one of the
\* two invalid-identifier errors, and it has issued no request: when it is the
\* top-level call, no request at all exists.
C1_InvalidIdentifierBeforeNetwork ==
  \A c \in CallIds : calls[c].txid \in NotIdentifiers =>
    /\ promises[c].state = "rejected"
    /\ promises[c].value.message \in {"TXID is missing", "Invalid TXID"}
    /\ \A r \in ReqIds : requests[r].call /= c
    /\ (c = 1 => requests = <<>>)

C1_Witness == /\ calls /= <<>>
              /\ calls[1].txid = "upper"
              /\ promises[1].state = "rejected"

\* C2: a call that received a Merkle proof is fulfilled with the Mined shape
\* {rawTx, proof} holding the raw transaction it fetched; it made no mAPI
\* request and no recursive call.
C2_ProofIsTerminal ==
  \A r \in ReqIds : (Answered(r, "proof") /\ ~requests[r].data.empty) =>
    LET c == requests[r].call
    IN  /\ promises[c].state = "fulfilled"
        /\ IsMinedShape(promises[c].value)
        /\ Received(c, "hex", promises[c].value.rawTx)
        /\ NoMapiRequest(c)
        /\ NoChild(c)

C2_Witness == \E r \in ReqIds : /\ Answered(r, "proof")
                                /\ ~requests[r].data.empty
                                /\ requests[r].call > 1
                                /\ promises[requests[r].call].state = "fulfilled"

\* C3: a call that received no proof and returns, returns the Pending shape;
\* the keys of its inputs are exactly the distinct previous-transaction
\* identifiers of its raw transaction, each resolved by exactly one recursive
\* call whose envelope is the entry.
C3_InputsAreDistinctAncestors ==
  \A r \in ReqIds : (Answered(r, "proof") /\ requests[r].data.empty /\ promises[requests[r].call].state = "fulfilled") =>
    LET c == requests[r].call
        v == promises[c].value
    IN  /\ IsPendingShape(v)
        /\ Received(c, "hex", v.rawTx)
        /\ DOMAIN v.inputs = PrevTxIds(v.rawTx)
        /\ \A t \in PrevTxIds(v.rawTx) : Cardinality({d \in CallIds : calls[d].parent = c /\ calls[d].txid = t}) = 1
        /\ \A d \in CallIds : calls[d].parent = c => (calls[d].txid \in PrevTxIds(v.rawTx) /\ promises[d] = Fulfilled(v.inputs[calls[d].txid]))

C3_Witness == \E c \in CallIds : /\ GotNoProof(c)
                                 /\ promises[c].state = "fulfilled"
                                 /\ Len(TxInputs(promises[c].value.rawTx)) > Cardinality(PrevTxIds(promises[c].value.rawTx))

\* C4: a call whose attestation's signature does not verify is rejected with
\* the signature error and starts no recursive call; the top-level call then
\* returns no envelope.
C4_BadSignatureRejected ==
  \A r \in ReqIds : (Answered(r, "mapi") /\ ~SignatureVerifies(requests[r].data.body)) =>
    /\ promises[requests[r].call].state = "rejected"
    /\ promises[requests[r].call].value.message = "Inalid mAPI signature for TXID"
    /\ NoChild(requests[r].call)
    /\ promises[1].state = "rejected"

C4_Witness == \E r \in ReqIds :
                /\ Answered(r, "mapi")
                /\ ~SignatureVerifies(requests[r].data.body)
                /\ requests[r].data.body.payload.wellFormed
                /\ requests[r].data.body.payload.txid = calls[requests[r].call].txid
                /\ requests[r].data.body.payload.returnResult = "success"

\* C5: a call whose attestation is correctly signed and decodes to a payload
\* for another txid is rejected with the mismatch error, which carries the
\* expected and the actual identifier; the top-level call returns no envelope.
C5_TxidMismatchRejected ==
  \A r \in ReqIds :
    LET resp == requests[r].data.body
        c == requests[r].call
    IN  (Answered(r, "mapi") /\ SignatureVerifies(resp) /\ resp.payload.wellFormed /\ resp.payload.txid /= calls[c].txid) =>
          /\ promises[c].state = "rejected"
          /\ promises[c].value = Error("Invalid mAPI response, expected a response for TXID but got one for", <<calls[c].txid, resp.payload.txid>>)
          /\ promises[1].state = "rejected"

C5_Witness == \E r \in ReqIds :
                /\ requests[r].call > 1
                /\ Answered(r, "mapi")
                /\ SignatureVerifies(requests[r].data.body)
                /\ requests[r].data.body.payload.wellFormed
                /\ requests[r].data.body.payload.txid /= calls[requests[r].call].txid
                /\ requests[r].data.body.payload.returnResult = "success"

\* the attestation of a Pending node passed the three checks for t
Trusted(t, r) == /\ SignatureVerifies(r)
                 /\ r.payload.wellFormed
                 /\ r.payload.txid = t
                 /\ r.payload.returnResult = "success"

RECURSIVE EveryPendingNodeTrusted(_, _)
EveryPendingNodeTrusted(t, v) ==
  IsPendingShape(v) =>
    /\ Len(v.mapiResponses) = 1
    /\ Trusted(t, v.mapiResponses[1])
    /\ \A k \in DOMAIN v.inputs : EveryPendingNodeTrusted(k, v.inputs[k])

\* C6: in the envelope a top-level call returns, every Pending node, at any
\* depth, carries exactly one attestation, and that attestation verifies,
\* decodes to the identifier the node is keyed under and reports "success".
C6_PendingNodesTrusted ==
  (calls /= <<>> /\ promises[1].state = "fulfilled") => EveryPendingNodeTrusted(calls[1].txid, promises[1].value)

C6_Witness == /\ calls /= <<>>
              /\ promises[1].state = "fulfilled"
              /\ IsPendingShape(promises[1].value)
              /\ \E k \in DOMAIN promises[1].value.inputs : IsPendingShape(promises[1].value.inputs[k])

\* C7: on testnet with no credential, a call that finds its transaction
\* unconfirmed is rejected with the missing-credential error, and no request
\* to an attestation provider has been issued.
C7_TestnetMissingCredential ==
  \A c \in CallIds : (calls[c].options.network = "testnet" /\ ~Truthy(calls[c].options.taalApiKey) /\ GotNoProof(c)) =>
    /\ promises[c] = Rejected(Error("Taal API key required in testnet!", <<>>))
    /\ promises[1].state = "rejected"
    /\ \A r \in ReqIds : requests[r].kind /= "mapi"

C7_Witness == \E c \in CallIds : calls[c].options.network = "testnet" /\ ~Truthy(calls[c].options.taalApiKey) /\ GotNoProof(c)

\* C8: on testnet with a credential that does not carry the testnet prefix, a
\* call that finds its transaction unconfirmed is rejected with the
\* wrong-scope error, and no request to an attestation provider has been
\* issued.
C8_TestnetWrongCredentialScope ==
  \A c \in CallIds : (calls[c].options.network = "testnet" /\ Truthy(calls[c].options.taalApiKey) /\ ~StartsWith(calls[c].options.taalApiKey, TestnetPrefix) /\ GotNoProof(c)) =>
    /\ promises[c] = Rejected(Error("Taal API key must be a testnet key for testnet", <<>>))
    /\ promises[1].state = "rejected"
    /\ \A r \in ReqIds : requests[r].kind /= "mapi"

C8_Witness == \E c \in CallIds : calls[c].options.network = "testnet" /\ calls[c].options.taalApiKey = MainnetKey /\ GotNoProof(c)

\* C9: every recursive call has the network selector and the credential of
\* the top-level call, and every request of the recursion uses the indexer
\* network, the provider and the credential chosen for the top-level call.
C9_OptionsReachEveryAncestor ==
  /\ \A c \in CallIds : /\ calls[c].options.network = calls[1].options.network
                        /\ calls[c].options.taalApiKey = calls[1].options.taalApiKey
  /\ \A r \in ReqIds :
       IF requests[r].kind = "mapi"
       THEN /\ requests[r].auth = calls[1].options.taalApiKey
            /\ requests[r].host = (IF Truthy(calls[1].options.taalApiKey) THEN "mapi.taal.com" ELSE "mapi.gorillapool.io")
       ELSE requests[r].net = (IF calls[1].options.network = "testnet" THEN "test" ELSE "main")

\* C10: a top-level call that asked for the transport output format returns
\* the transport encoding, not the structured envelope object.
C10_TransportFormatReturned ==
  (calls /= <<>> /\ calls[1].options.format = "beefHex" /\ promises[1].state = "fulfilled") =>
    ~(IsMinedShape(promises[1].value) \/ IsPendingShape(promises[1].value))

\* the value of a string of binary digits, most significant digit first
RECURSIVE BinaryValue(_, _)
BinaryValue(bits, k) == IF k > Len(bits) THEN 0 ELSE bits[k] * 2 ^ (Len(bits) - k) + BinaryValue(bits, k + 1)

\* the bit of a branch: 0 when the sibling is on the right, 1 otherwise
SideBits(branches) == [k \in 1..Len(branches) |-> IF branches[k].pos = "R" THEN 0 ELSE 1]

\* C11: for every branch list the normalizer yields the branch hashes in the
\* given order as nodes and, as index, the base-2 value of the bits of the
\* branches (0 for pos "R", 1 otherwise), the first branch the most
\* significant; the subject hash and the target root are copied and
\* targetType is "merkleRoot".
C11_NormalizerIndexAndNodes ==
  ~normalProof.empty =>
    LET in == rawProof.body[1]
        out == normalProof.body
    IN  /\ out.txOrId = in.hash
        /\ out.target = in.merkleRoot
        /\ out.targetType = "merkleRoot"
        /\ out.nodes = [k \in 1..Len(in.branches) |-> in.branches[k].hash]
        /\ out.index = Num(BinaryValue(SideBits(in.branches), 1))

\* C18: for every proof record, the empty branch list included, index is a
\* non-negative integer below 2^len(nodes) and nodes has one entry per branch.
C18_IndexWithinPath ==
  ~normalProof.empty =>
    /\ Len(normalProof.body.nodes) = Len(rawProof.body[1].branches)
    /\ ~normalProof.body.index.nan
    /\ normalProof.body.index.val >= 0
    /\ normalProof.body.index.val < 2 ^ Len(normalProof.body.nodes)

\* C12 as stated: a parent whose ancestor failed is rejected with an error
\* of its own kind, the ancestor-resolution-failed error, that carries the
\* ancestor's error as its context.
C12_AncestorErrorWrapped ==
  \A d \in CallIds : (calls[d].parent /= 0 /\ promises[d].state = "rejected") =>
    LET p == promises[calls[d].parent]
    IN  /\ p.state = "rejected"
        /\ p.value /= promises[d].value
        /\ \E k \in 1..Len(p.value.args) : p.value.args[k] = promises[d].value

\* C12 amended: a parent whose ancestor failed is rejected with the
\* ancestor's own error, unchanged; by that the top-level call is rejected
\* with the error of the call that failed first, and no envelope is returned.
C12_AncestorErrorRethrown ==
  \A d \in CallIds : promises[d].state = "rejected" =>
    /\ stack = <<>>
    /\ promises[1] = promises[d]
    /\ (calls[d].parent /= 0 => promises[calls[d].parent] = promises[d])

C12_Witness == /\ Len(calls) >= 3
               /\ calls[3].parent = 2
               /\ promises[3].state = "rejected"
               /\ promises[1].state = "rejected"

\* C13: a call whose raw-transaction request is answered with no bytes is
\* rejected with the not-found error for its txid, and after that answer no
\* proof request and no mAPI request is issued for that txid.
C13_NotFoundStopsTheCall ==
  \A r \in ReqIds : (Answered(r, "hex") /\ requests[r].data.empty) =>
    LET c == requests[r].call
    IN  /\ promises[c].state = "rejected"
        /\ promises[c].value = Error("Could not find transaction on WhatsOnChain", <<calls[c].txid>>)
        /\ \A q \in ReqIds : q > r => (requests[q].txid /= requests[r].txid \/ requests[q].kind = "hex")
        /\ \A q \in ReqIds : requests[q].call = c => q = r

C13_Witness == /\ Len(calls) >= 2
               /\ promises[2].state = "rejected"
               /\ promises[2].value.message = "Could not find transaction on WhatsOnChain"
               /\ requests[Len(requests)].kind = "hex"
               /\ requests[Len(requests)].call = 2

\* C14: the mAPI request of a call goes to mapi.gorillapool.io without an
\* Authorization header when the call's options hold no taalApiKey, and to
\* mapi.taal.com with the key as Authorization when, and only when, they
\* hold one.
C14_ProviderFollowsKey ==
  \A r \in ReqIds : requests[r].kind = "mapi" =>
    LET key == calls[requests[r].call].options.taalApiKey
    IN  /\ requests[r].auth = key
        /\ requests[r].host = (IF key = <<>> THEN "mapi.gorillapool.io" ELSE "mapi.taal.com")

C14_Witness == \E r \in ReqIds, q \in ReqIds :
                 /\ requests[r].kind = "mapi" /\ requests[r].host = "mapi.taal.com" /\ requests[r].auth = MainnetKey
                 /\ requests[q].kind = "mapi" /\ requests[q].host = "mapi.gorillapool.io" /\ requests[q].auth = <<>>

\* the steps of the verification a mAPI response fails, numbered in the fixed
\* order: 1 the signature, 2 the parse of the payload, 3 the txid, 4 the
\* returnResult; a payload that does not parse has no txid and no result
FailedSteps(t, r) ==
  (IF SignatureVerifies(r) THEN {} ELSE {1})
    \cup (IF r.payload.wellFormed THEN {} ELSE {2, 3, 4})
    \cup (IF r.payload.wellFormed /\ r.payload.txid /= t THEN {3} ELSE {})
    \cup (IF r.payload.wellFormed /\ r.payload.returnResult /= "success" THEN {4} ELSE {})

\* the error message of each step
StepMessage == <<"Inalid mAPI signature for TXID", "SyntaxError", "Invalid mAPI response, expected a response for TXID but got one for", "Invalid mAPI status response for TXID">>

\* C15: a call whose mAPI response fails one or more steps of the
\* verification is rejected with the error of the earliest failing step in
\* the order signature, parse, txid, returnResult: a bad signature hides a
\* mismatching txid, a mismatching txid hides a non-success result.
C15_EarliestFailingStepReported ==
  \A r \in ReqIds : (Answered(r, "mapi") /\ FailedSteps(requests[r].txid, requests[r].data.body) /= {}) =>
    LET c == requests[r].call
        failed == FailedSteps(requests[r].txid, requests[r].data.body)
        first == CHOOSE k \in failed : \A j \in failed : k <= j
    IN  /\ promises[c].state = "rejected"
        /\ promises[c].value.message = StepMessage[first]

C15_Witness == \E r \in ReqIds :
                 /\ Answered(r, "mapi")
                 /\ {1, 3, 4} \subseteq FailedSteps(requests[r].txid, requests[r].data.body)
                 /\ promises[requests[r].call].value.message = StepMessage[1]

\* the raw transaction the call c received
HexData(c) == requests[CHOOSE r \in ReqIds : requests[r].call = c /\ requests[r].kind = "hex"].data

\* the identifiers of a list of inputs from position k on, each kept at its
\* first occurrence only
RECURSIVE FirstOccurrences(_, _)
FirstOccurrences(ins, k) ==
  IF k > Len(ins) THEN <<>>
  ELSE IF \E j \in 1..(k - 1) : ins[j].prevTxId = ins[k].prevTxId THEN FirstOccurrences(ins, k + 1)
  ELSE <<ins[k].prevTxId>> \o FirstOccurrences(ins, k + 1)

\* the recursive calls the parent of d made before d
EarlierSiblings(d) == {e \in 1..(d - 1) : calls[e].parent = calls[d].parent}

\* C16: the recursive calls of one Pending resolution are made one at a time
\* in the order of first occurrence of the ancestors in the input list: the
\* n-th recursive call is for the n-th distinct ancestor, and whenever it
\* exists every recursive call made before it by the same parent has
\* completed with an envelope, so that none follows a failed one.
C16_AncestorsOneAtATimeInOrder ==
  \A d \in CallIds : calls[d].parent /= 0 =>
    LET order == FirstOccurrences(HexData(calls[d].parent).body, 1)
        n == Cardinality(EarlierSiblings(d)) + 1
    IN  /\ n <= Len(order)
        /\ calls[d].txid = order[n]
        /\ \A e \in EarlierSiblings(d) : promises[e].state = "fulfilled"
        /\ \A r \in ReqIds : requests[r].call < d => requests[r].answered

C16_Witness == \E d \in CallIds :
                 /\ d > 2
                 /\ calls[d].parent = 1
                 /\ calls[2].parent = 1
                 /\ calls[2].txid /= calls[d].txid
                 /\ requests[Len(requests)].call = d
                 /\ ~requests[Len(requests)].answered

\* the calls that returned a Pending envelope whose transaction spends an
\* output of t
PendingParents(t) == {c \in CallIds : promises[c].state = "fulfilled" /\ IsPendingShape(promises[c].value) /\ t \in PrevTxIds(promises[c].value.rawTx)}

\* the recursive calls made for t
RecursiveCalls(t) == {d \in CallIds : calls[d].parent /= 0 /\ calls[d].txid = t}

\* C17: nothing is remembered across the recursion tree. When the top-level
\* call has returned, an ancestor referenced by k Pending transactions of the
\* tree has been resolved by k recursive calls, one per referencing parent,
\* each with its own raw-transaction request, and each parent's inputs holds
\* the envelope its own recursive call returned.
C17_NoMemoAcrossTheTree ==
  (calls /= <<>> /\ promises[1].state = "fulfilled") =>
    \A t \in ValidIds :
      /\ Cardinality(RecursiveCalls(t)) = Cardinality(PendingParents(t))
      /\ \A c \in PendingParents(t) : \E d \in RecursiveCalls(t) :
           /\ calls[d].parent = c
           /\ promises[c].value.inputs[t] = promises[d].value
           /\ \E r \in ReqIds : requests[r].call = d /\ requests[r].kind = "hex" /\ requests[r].txid = t

C17_Witness == /\ calls /= <<>>
               /\ promises[1].state = "fulfilled"
               /\ Cardinality(PendingParents("t1")) = 2
               /\ Cardinality(RecursiveCalls("t1")) = 2

\* the call c has sent a request of the given kind
Requested(c, kind) == \E r \in ReqIds : requests[r].call = c /\ requests[r].kind = kind

CredentialMessages == {"Taal API key required in testnet!", "Taal API key must be a testnet key for testnet"}

\* C20: on testnet the credential policy is applied only after the two
\* indexer requests and only when no proof came back: whatever the key, a
\* call with a valid identifier requests the raw transaction, requests the
\* proof once the raw transaction has arrived, and returns the Mined shape
\* when a proof arrives; a credential error is raised only by a call that
\* was told there is no proof.
C20_CredentialPolicyAfterLookups ==
  \A c \in CallIds : (calls[c].options.network = "testnet" /\ calls[c].txid \notin NotIdentifiers) =>
    /\ Requested(c, "hex")
    /\ (\A r \in ReqIds : (requests[r].call = c /\ Answered(r, "hex") /\ ~requests[r].data.empty) => Requested(c, "proof"))
    /\ (\A r \in ReqIds : (requests[r].call = c /\ Answered(r, "proof") /\ ~requests[r].data.empty) =>
          promises[c].state = "fulfilled" /\ IsMinedShape(promises[c].value))
    /\ ((promises[c].state = "rejected" /\ promises[c].value.message \in CredentialMessages) => GotNoProof(c))

C20_Witness == /\ calls /= <<>>
               /\ calls[1].options.network = "testnet"
               /\ calls[1].options.taalApiKey = <<>>
               /\ Len(requests) = 2
               /\ promises[1].state = "fulfilled"
               /\ IsMinedShape(promises[1].value)

\* every node of the envelope without inputs of its own is of the Mined shape
RECURSIVE AllLeavesMined(_)
AllLeavesMined(v) ==
  \/ IsMinedShape(v)
  \/ /\ IsPendingShape(v)
     /\ DOMAIN v.inputs /= {}
     /\ \A t \in DOMAIN v.inputs : AllLeavesMined(v.inputs[t])

\* the top-level call has been made
Started == calls /= <<>>

\* the top-level call has returned an envelope whose leaves are all mined,
\* or has failed with an error, and no call is left running
Terminated == /\ calls /= <<>>
              /\ stack = <<>>
              /\ \/ promises[1].state = "rejected"
                 \/ promises[1].state = "fulfilled" /\ AllLeavesMined(promises[1].value)

\* C19: over a finite acyclic ancestry whose unconfirmed chains end in mined
\* transactions, with every request answered in the end, a top-level call
\* terminates: it returns an envelope whose leaves are all Mined nodes, or
\* it fails with an error.
C19_TopLevelCallTerminates == Started ~> Terminated

C19_Witness == /\ Terminated
               /\ promises[1].state = "fulfilled"
               /\ IsPendingShape(promises[1].value)
               /\ \E t \in DOMAIN promises[1].value.inputs : IsPendingShape(promises[1].value.inputs[t])

====
